---------------------------- MODULE Spec2Model ----------------------------
(***************************************************************************)
(* A model of the Mafia game bot (src/mafia_bot.py): one MafiaGame object  *)
(* of one guild, the commands that reach it, the select-menu callbacks of  *)
(* its views, and the phase tasks (begin_game -> start_night -> end_night  *)
(* -> start_day -> ...) that the `begin` command starts.  Every `await`    *)
(* of a phase task that lets other coroutines run is a value of the        *)
(* task's pc; the code between two awaits is one action.                   *)
(*                                                                         *)
(* alive_players is a Python list that never holds an id twice (it is      *)
(* always a fresh copy of the roster's keys, and afterwards only shrinks)  *)
(* and whose order is never observed, so it is modelled as a set.          *)
(* dead_players is a list that only grows by append: a sequence.           *)
(* night_actions is an insertion-ordered dict: a sequence of records with  *)
(* at most one record per actor (see Upsert).  current_votes is a dict     *)
(* whose order is never observed: a function.                              *)
(***************************************************************************)
EXTENDS Integers, Sequences, FiniteSets, TLC

\* ---------------------------------------------------------------- bounds
MaxIds == 8         \* Discord users that may type commands or click menus
NumActors == 4      \* the users among them that type `join` in a run
MaxTasks == 2       \* phase tasks a run can hold
WindowPolls == 1    \* sleeps of a collection loop before its deadline (45 s, one per second)
MaxBegins == 1      \* accepted `begin` commands in a run of Spec
MaxSubmits == 4     \* accepted submissions in a run of Spec
RebeginSubmits == 1 \* accepted submissions in a run of SpecRebegin
JoinSubmits == 1    \* accepted submissions in a run of SpecJoin
TwoMafiaSubmits == 3 \* accepted submissions in a run of SpecTwoMafia
ThreeMafiaSubmits == 3 \* accepted submissions in a run of SpecThreeMafia
SendFailSubmits == 2 \* accepted submissions in a run of SpecSendFails
SimulatedSubmits == 2 \* accepted submissions in a run of SpecSimulated
FairSubmits == 2 \* accepted submissions in a run of SpecFair
RestartSubmits == 1 \* accepted submissions in a run of SpecRestart
NumCallers == 4      \* concurrent callers of MistralAgent.run
StartClock == 58     \* time.time(), in seconds, when a run of SpecAgent starts
PriorRequests == 28  \* requests recorded before, one a second from second 1
AgentTicks == 4      \* seconds that pass in a run of SpecAgent
NumVoters == 3       \* users who may vote in the poll of a run of SpecPoll

\* ------------------------------------------------------ program constants
MIN_PLAYERS == 4

FallbackLen == 34          \* len("The village continues its story...")
DefaultMaxLength == 1900   \* generate_story's default max_length
npc_base_id == 1000000     \* the ids from npc_base_id on are those of NPCPlayer objects
SemaphorePermits == 3      \* asyncio.Semaphore(3)
requests_per_minute == 30
min_request_interval == 1  \* seconds
Window == 60               \* seconds a timestamp is kept by _is_rate_limited
RateSleep == 2             \* seconds slept when rate limited

Ids == 1..MaxIds
Joiners == 1..NumActors
TaskIds == 1..MaxTasks
None == 0

Roles == {"VILLAGER", "MAFIA", "DETECTIVE", "DOCTOR"}

VARIABLES
    active,         \* active_games holds the game object of the guild
    players,        \* game.players (its keys)
    player_roles,   \* game.player_roles
    alive_players,  \* game.alive_players
    dead_players,   \* game.dead_players
    night_actions,  \* game.night_actions
    current_votes,  \* game.current_votes
    state,          \* game.state
    tasks,          \* the phase tasks: pc and locals of each
    nsub,           \* accepted submissions the run may still take (bounds the model)
    nbegin,         \* accepted begin commands the run may still take (bounds the model)
    resub,          \* history: the last accepted submission replaced a record of its actor
    call            \* a call of generate_story or get_npc_action: inputs, position, result

vars == <<active, players, player_roles, alive_players, dead_players,
          night_actions, current_votes, state, tasks, nsub, nbegin, resub, call>>

\* What the steps of the game's phases leave alone.
budget == <<nsub, nbegin, resub, call>>

game == <<players, player_roles, alive_players, dead_players,
          night_actions, current_votes, state>>

\* ---------------------------------------------------------------- helpers
EmptyMap == [x \in {} |-> None]

\* No call of generate_story or get_npc_action is followed.
NoCall == [fn |-> "none"]

NoView == [live |-> FALSE, opts |-> {}]

\* No investigation result has been sent.
NoReveal == [to |-> "nobody", target |-> None, role |-> "none"]

IdleTask == [pc |-> "idle", elapsed |-> 0, members |-> {}, expected |-> 0,
             protected |-> None, chosen |-> None, killed |-> None,
             cause |-> "none", reveal |-> NoReveal, verdict |-> "none",
             kview |-> NoView, iview |-> NoView, pview |-> NoView,
             vview |-> NoView]

\* The locals of a task that has returned or died hold nothing.
EndTask(pc) == [IdleTask EXCEPT !.pc = pc]

HasKey(m, k) == k \in DOMAIN m

SeqSet(s) == {s[i] : i \in 1..Len(s)}

\* Upsert were the map a list that is appended to.
UpsertAppend(s, rec) == Append(s, rec)

\* dict[key] = value on the insertion-ordered dict night_actions: a key
\* that is present keeps its position, a new key goes last.
Upsert(s, rec) ==
    IF \E i \in 1..Len(s) : s[i].actor = rec.actor
    THEN [i \in 1..Len(s) |-> IF s[i].actor = rec.actor THEN rec ELSE s[i]]
    ELSE Append(s, rec)

Actors(s) == {s[i].actor : i \in 1..Len(s)}

RecordOf(s, a) == s[CHOOSE i \in 1..Len(s) : s[i].actor = a]

\* ------------------------------------------------------------ assign_roles
\* NumMafia were every game to have one Mafia.
NumMafiaOne(n) == 1

NumMafia(n) == IF n \div 4 > 1 THEN n \div 4 ELSE 1

RoleCount(n, r) ==
    CASE r = "MAFIA" -> NumMafia(n)
      [] r = "DETECTIVE" -> 1
      [] r = "DOCTOR" -> 1
      [] OTHER -> n - (NumMafia(n) + 2)

\* Every result of zipping a shuffle of the ids with a shuffle of the role
\* list: the maps that use each role as often as the list holds it.
RoleAssignments(P) ==
    {f \in [P -> Roles] :
        \A r \in Roles :
            Cardinality({p \in P : f[p] = r}) = RoleCount(Cardinality(P), r)}

\* User ids are interchangeable: nothing in the game compares two ids except
\* for equality.  Every behaviour is therefore a renaming of the users of a
\* behaviour whose first assignment gives the roles in this order of ids
\* (Mafia to the smallest ids, then Detective, Doctor, Villagers), and the
\* model explores those: the first begin of a run draws from
\* FirstAssignments, every later one from all of RoleAssignments.
RoleRank(r) ==
    CASE r = "MAFIA" -> 1 [] r = "DETECTIVE" -> 2 [] r = "DOCTOR" -> 3 [] OTHER -> 4

FirstAssignments(P) ==
    {f \in RoleAssignments(P) :
        \A p, q \in P : p < q => RoleRank(f[p]) <= RoleRank(f[q])}

\* --------------------------------------------------------- check_game_over
AliveWithRole(r) ==
    {p \in alive_players : HasKey(player_roles, p) /\ player_roles[p] = r}

\* check_game_over were the Mafia to need a strict majority.
check_game_overStrict ==
    IF \E p \in alive_players : ~HasKey(player_roles, p) THEN "error"
    ELSE LET alive_mafia == Cardinality(AliveWithRole("MAFIA"))
             alive_villagers == Cardinality(alive_players) - alive_mafia
         IN  IF alive_mafia > alive_villagers THEN "mafia"
             ELSE IF alive_mafia = 0 THEN "village"
             ELSE "none"

\* "error" is the KeyError of self.player_roles[pid] for an alive id that
\* has no role.
check_game_over ==
    IF \E p \in alive_players : ~HasKey(player_roles, p) THEN "error"
    ELSE LET alive_mafia == Cardinality(AliveWithRole("MAFIA"))
             alive_villagers == Cardinality(alive_players) - alive_mafia
         IN  IF alive_mafia >= alive_villagers THEN "mafia"
             ELSE IF alive_mafia = 0 THEN "village"
             ELSE "none"

\* ----------------------------------------------------- check_win_conditions
\* The evaluator of process_votes and process_night_actions: the same
\* counts, the tests in the other order.
check_win_conditions ==
    IF \E p \in alive_players : ~HasKey(player_roles, p) THEN "error"
    ELSE LET mafia_count == Cardinality(AliveWithRole("MAFIA"))
             villager_count == Cardinality(alive_players) - mafia_count
         IN  IF mafia_count = 0 THEN "village"
             ELSE IF mafia_count >= villager_count THEN "mafia"
             ELSE "none"

Init ==
    /\ active = FALSE
    /\ players = {}
    /\ player_roles = EmptyMap
    /\ alive_players = {}
    /\ dead_players = <<>>
    /\ night_actions = <<>>
    /\ current_votes = EmptyMap
    /\ state = "WAITING"
    /\ tasks = [t \in TaskIds |-> IdleTask]
    /\ nsub = MaxSubmits
    /\ nbegin = MaxBegins
    /\ resub = FALSE
    /\ call = NoCall

\* ----------------------------------------------------------------- commands
\* !startgame.  MafiaGame(...) builds a new game object and active_games
\* points to it.  The model follows one game object at a time: the command
\* is taken while no phase task holds the previous object, whose fields
\* then equal those of the new one after the constructor has run.
StartGame ==
    /\ \A t \in TaskIds : tasks[t].pc = "idle"
    /\ IF active /\ state # "WAITING"
       THEN UNCHANGED <<active, game>>
       ELSE /\ active' = TRUE
            /\ players' = {}
            /\ player_roles' = EmptyMap
            /\ alive_players' = {}
            /\ dead_players' = <<>>
            /\ night_actions' = <<>>
            /\ current_votes' = EmptyMap
            /\ state' = "WAITING"
    /\ UNCHANGED <<tasks, budget>>

\* Join were join_game not to look at the game's state.
JoinAnyPhase(p) ==
    /\ active
    /\ players' = players \cup {p}
    /\ UNCHANGED <<active, player_roles, alive_players, dead_players,
                   night_actions, current_votes, state, tasks, budget>>

\* !join by user p.
Join(p) ==
    /\ active
    /\ IF state = "WAITING" /\ p \notin players
       THEN players' = players \cup {p}
       ELSE UNCHANGED players
    /\ UNCHANGED <<active, player_roles, alive_players, dead_players,
                   night_actions, current_votes, state, tasks, budget>>

\* Begin were begin_game not to look at the size of the roster.
BeginNoMinimum(t) ==
    /\ active
    /\ tasks[t].pc = "idle"
    /\ \A u \in TaskIds : u < t => tasks[u].pc # "idle"
    /\ nbegin > 0
    /\ nbegin' = nbegin - 1
    /\ \E f \in FirstAssignments(players) : player_roles' = f
    /\ alive_players' = players
    /\ dead_players' = <<>>
    /\ tasks' = [tasks EXCEPT ![t].pc = "begin_setup"]
    /\ UNCHANGED <<active, players, night_actions, current_votes, state, nsub, resub, call>>

\* !begin: begin_game up to its first await (create_role_channels).  The
\* command has no guard on the game's state; it runs assign_roles at once.
Begin(t) ==
    /\ active
    /\ tasks[t].pc = "idle"
    /\ \A u \in TaskIds : u < t => tasks[u].pc # "idle"
    /\ IF Cardinality(players) < MIN_PLAYERS
       THEN UNCHANGED <<player_roles, alive_players, dead_players, tasks, nbegin, call>>
       ELSE /\ nbegin > 0
            /\ nbegin' = nbegin - 1
            /\ \E f \in (IF \A u \in TaskIds : tasks[u].pc = "idle"
                        THEN FirstAssignments(players)
                        ELSE RoleAssignments(players)) : player_roles' = f
            /\ alive_players' = players
            /\ dead_players' = <<>>
            /\ tasks' = [tasks EXCEPT ![t].pc = "begin_setup"]
    /\ UNCHANGED <<active, players, night_actions, current_votes, state, nsub, resub, call>>

\* reset_game_state
ResetGameState ==
    /\ players' = {}
    /\ player_roles' = EmptyMap
    /\ alive_players' = {}
    /\ dead_players' = <<>>
    /\ night_actions' = <<>>
    /\ current_votes' = EmptyMap
    /\ state' = "WAITING"

\* !endgame: cleanup_channels, reset_game_state, del active_games[guild].
\* The phase tasks are not cancelled: they keep their reference to the game.
EndGame ==
    /\ active
    /\ active' = FALSE
    /\ ResetGameState
    /\ UNCHANGED <<tasks, budget>>

\* ------------------------------------------------------------- phase tasks
SetTask(t, rec) == tasks' = [tasks EXCEPT ![t] = rec]

SetPc(t, pc) == tasks' = [tasks EXCEPT ![t].pc = pc]

\* begin_game after create_role_channels and the role messages: lines
\* 423-428, up to the await of the announcement.
BeginStarted(t) ==
    /\ tasks[t].pc = "begin_setup"
    /\ state' = "IN_PROGRESS"
    /\ alive_players' = players
    /\ SetPc(t, "begin_announce")
    /\ UNCHANGED <<active, players, player_roles, dead_players,
                   night_actions, current_votes, budget>>

\* begin_game's loop over self.player_roles.items() (lines 420-422) while
\* the dict is cleared by reset_game_state or cleared and refilled by the
\* assign_roles of a later `begin`: the iteration may raise RuntimeError,
\* and self.players[player_id] may raise KeyError; the task then dies.
\* (When the dict was touched before the loop began, the loop goes on:
\* BeginStarted.)  A task numbered above t began after t did.
BeginSetupFails(t) ==
    /\ tasks[t].pc = "begin_setup"
    /\ \/ player_roles = EmptyMap
       \/ \E u \in TaskIds : u > t /\ tasks[u].pc # "idle"
    /\ SetTask(t, EndTask("crashed"))
    /\ UNCHANGED <<active, game, budget>>

\* What follows a call of check_game_over that found a winner or raised:
\* the winner is announced (an await) before state becomes ENDED.
GameOverOrError(t, verdict) ==
    /\ verdict # "none"
    /\ SetTask(t, IF verdict = "error" THEN EndTask("crashed")
                   ELSE [EndTask("over_announce") EXCEPT !.verdict = verdict])
    /\ UNCHANGED <<active, game, budget>>

\* start_night from its call to the await of the night announcement.
StartNightBody(t) ==
    IF check_game_over # "none"
    THEN GameOverOrError(t, check_game_over)
    ELSE /\ state' = "NIGHT"
         /\ night_actions' = <<>>
         /\ SetPc(t, "night_announce")
         /\ UNCHANGED <<active, players, player_roles, alive_players,
                        dead_players, current_votes, budget>>

StartNight(t) ==
    /\ tasks[t].pc \in {"begin_announce", "vote_outcome"}
    /\ StartNightBody(t)

\* check_game_over after the announcement: state = ENDED, then cleanup_game
\* awaits the role list and the channel deletions.
OverEnded(t) ==
    /\ tasks[t].pc = "over_announce"
    /\ state' = "ENDED"
    /\ SetPc(t, "over_cleanup")
    /\ UNCHANGED <<active, players, player_roles, alive_players,
                   dead_players, night_actions, current_votes, budget>>

\* cleanup_game: reset_game_state, the last message, and the task returns.
OverReset(t) ==
    /\ tasks[t].pc = "over_cleanup"
    /\ ResetGameState
    /\ SetPc(t, "done")
    /\ UNCHANGED <<active, budget>>

\* start_night lines 792-829: the expected count and the three views.
mafia_members == AliveWithRole("MAFIA")
detective_members == AliveWithRole("DETECTIVE")
doctor_members == AliveWithRole("DOCTOR")

expected_actions ==
    Cardinality(mafia_members) + Cardinality(detective_members)
        + Cardinality(doctor_members)

View(cond, opts) == IF cond /\ opts # {} THEN [live |-> TRUE, opts |-> opts] ELSE NoView

NightOpen(t) ==
    /\ tasks[t].pc = "night_announce"
    /\ SetTask(t, [tasks[t] EXCEPT
            !.pc = "night_wait",
            !.elapsed = 0,
            !.members = mafia_members \cup detective_members \cup doctor_members,
            !.expected = expected_actions,
            !.kview = View(mafia_members # {}, alive_players \ mafia_members),
            !.iview = View(detective_members # {},
                           {p \in alive_players : \E d \in detective_members : p # d}),
            !.pview = View(doctor_members # {}, alive_players)])
    /\ UNCHANGED <<active, game, budget>>

\* NightPoll were the loop to wait for one record more than expected.
NightPollStrict(t) ==
    /\ tasks[t].pc = "night_wait"
    /\ IF tasks[t].elapsed >= WindowPolls \/ Len(night_actions) > tasks[t].expected
       THEN SetTask(t, [tasks[t] EXCEPT !.pc = "night_cleanup",
                            !.kview = NoView, !.iview = NoView, !.pview = NoView])
       ELSE SetTask(t, [tasks[t] EXCEPT !.elapsed = @ + 1])
    /\ UNCHANGED <<active, game, budget>>

\* NightPoll were the loop to have no deadline.
NightPollNoDeadline(t) ==
    /\ tasks[t].pc = "night_wait"
    /\ IF Len(night_actions) >= tasks[t].expected
       THEN SetTask(t, [tasks[t] EXCEPT !.pc = "night_cleanup",
                            !.kview = NoView, !.iview = NoView, !.pview = NoView])
       ELSE SetTask(t, [tasks[t] EXCEPT !.elapsed = IF @ < WindowPolls THEN @ + 1 ELSE @])
    /\ UNCHANGED <<active, game, budget>>

\* One pass of the loop of lines 830-835, from the return of sleep(1) to the
\* next sleep or to the end of the loop; leaving the loop stops the views.
NightPoll(t) ==
    /\ tasks[t].pc = "night_wait"
    /\ IF tasks[t].elapsed >= WindowPolls \/ Len(night_actions) >= tasks[t].expected
       THEN SetTask(t, [tasks[t] EXCEPT !.pc = "night_cleanup",
                            !.kview = NoView, !.iview = NoView, !.pview = NoView])
       ELSE SetTask(t, [tasks[t] EXCEPT !.elapsed = @ + 1])
    /\ UNCHANGED <<active, game, budget>>

\* The loops of end_night over night_actions.items(): the position of the
\* first record whose actor holds role r, 0 when there is none, -1 when
\* self.player_roles[player_id] raises KeyError before one is found.
RECURSIVE FirstByRole(_, _, _)
FirstByRole(s, r, i) ==
    IF i > Len(s) THEN 0
    ELSE IF ~HasKey(player_roles, s[i].actor) THEN -1
    ELSE IF player_roles[s[i].actor] = r THEN i
    ELSE FirstByRole(s, r, i + 1)

protected_player(s) ==
    LET d == FirstByRole(s, "DOCTOR", 1)
    IN  IF d > 0 THEN s[d].target ELSE None

\* killed_player were the protection ignored.
killed_playerUnprotected(s) ==
    LET m == FirstByRole(s, "MAFIA", 1)
    IN  IF m > 0 THEN s[m].target ELSE None

killed_player(s) ==
    LET m == FirstByRole(s, "MAFIA", 1)
    IN  IF m > 0 /\ s[m].target # protected_player(s) THEN s[m].target ELSE None

\* action['target'] of the Mafia record the second loop stops at (line
\* 868), before it is compared with protected_player.
kill_target(s) ==
    LET m == FirstByRole(s, "MAFIA", 1)
    IN  IF m > 0 THEN s[m].target ELSE None

\* end_night lines 858-875, up to the await of the morning story.
EndNightDecide(t) ==
    /\ tasks[t].pc = "night_cleanup"
    /\ IF FirstByRole(night_actions, "DOCTOR", 1) = -1
          \/ FirstByRole(night_actions, "MAFIA", 1) = -1
       THEN SetTask(t, EndTask("crashed"))
       ELSE SetTask(t, [tasks[t] EXCEPT !.pc = "morning",
                            !.protected = protected_player(night_actions),
                            !.chosen = kill_target(night_actions),
                            !.killed = killed_player(night_actions)])
    /\ UNCHANGED <<active, game, budget>>

\* EndNightApply were the victim not appended to dead_players.
EndNightApplyNoDead(t) ==
    /\ tasks[t].pc = "morning"
    /\ LET k == tasks[t].killed
       IN  IF k # None /\ k \in players /\ k \in alive_players
           THEN /\ alive_players' = alive_players \ {k}
                /\ SetPc(t, "night_outcome")
           ELSE /\ SetTask(t, EndTask("crashed"))
                /\ UNCHANGED alive_players
    /\ UNCHANGED <<active, players, player_roles, dead_players, night_actions,
                   current_votes, state, budget>>

\* The outcome end_night announces (lines 878-892): the death story, the
\* save story, or "Nobody died during the night."
NightCause(killed, protected) ==
    IF killed # None THEN "killed"
    ELSE IF protected # None THEN "saved"
    ELSE "nobody"

\* end_night lines 878-892, up to the await of the story of the outcome.
\* self.players[...] raises KeyError and alive_players.remove raises
\* ValueError: the exception ends the task before anything is written.
EndNightApply(t) ==
    /\ tasks[t].pc = "morning"
    /\ LET k == tasks[t].killed
           p == tasks[t].protected
       IN  IF k # None
           THEN IF k \in players /\ k \in alive_players
                THEN /\ alive_players' = alive_players \ {k}
                     /\ dead_players' = Append(dead_players, k)
                     /\ SetTask(t, [tasks[t] EXCEPT !.pc = "night_outcome",
                                        !.cause = NightCause(k, p)])
                ELSE /\ SetTask(t, EndTask("crashed"))
                     /\ UNCHANGED <<alive_players, dead_players>>
           ELSE /\ SetTask(t, IF p # None /\ p \notin players
                              THEN EndTask("crashed")
                              ELSE [tasks[t] EXCEPT !.pc = "night_outcome",
                                        !.cause = NightCause(k, p)])
                /\ UNCHANGED <<alive_players, dead_players>>
    /\ UNCHANGED <<active, players, player_roles, night_actions,
                   current_votes, state, budget>>

\* start_day from its call to the await of the two voting messages.
StartDayBody(t) ==
    IF check_game_over # "none"
    THEN GameOverOrError(t, check_game_over)
    ELSE /\ state' = "DAY"
         /\ current_votes' = EmptyMap
         /\ SetTask(t, [EndTask("day_announce") EXCEPT
                            !.vview = [live |-> FALSE, opts |-> alive_players]])
         /\ UNCHANGED <<active, players, player_roles, alive_players,
                        dead_players, night_actions, budget>>

\* end_night lines 894-907: the investigation is read from night_actions
\* now; with a Detective record the result is sent (an await) before
\* start_day is called, without one start_day is called at once.
\* The message of lines 897-903: who it names, the role it tells, and the
\* channel it is sent to.
RevealOf(rec) ==
    [to |-> "detective_channel", target |-> rec.target,
     role |-> player_roles[rec.target]]

EndNightReveal(t) ==
    /\ tasks[t].pc = "night_outcome"
    /\ LET d == FirstByRole(night_actions, "DETECTIVE", 1)
       IN  IF d = -1
           THEN SetTask(t, EndTask("crashed")) /\ UNCHANGED <<active, game, budget>>
           ELSE IF d > 0
           THEN /\ SetTask(t, IF HasKey(player_roles, night_actions[d].target)
                                 /\ night_actions[d].actor \in players
                                 /\ night_actions[d].target \in players
                              THEN [tasks[t] EXCEPT !.pc = "reveal_sent",
                                        !.reveal = RevealOf(night_actions[d])]
                              ELSE EndTask("crashed"))
                /\ UNCHANGED <<active, game, budget>>
           ELSE StartDayBody(t)

StartDay(t) ==
    /\ tasks[t].pc = "reveal_sent"
    /\ StartDayBody(t)

\* The voting prompt is posted: the view takes selections, the loop starts.
VoteOpen(t) ==
    /\ tasks[t].pc = "day_announce"
    /\ SetTask(t, [tasks[t] EXCEPT !.pc = "vote_wait", !.elapsed = 0,
                       !.vview.live = TRUE])
    /\ UNCHANGED <<active, game, budget>>

\* One pass of the loop of lines 707-712.  Leaving it at the deadline stops
\* the view at once; leaving it early awaits a message first.
VotePoll(t) ==
    /\ tasks[t].pc = "vote_wait"
    /\ IF tasks[t].elapsed >= WindowPolls
       THEN SetTask(t, [tasks[t] EXCEPT !.pc = "vote_cleanup", !.vview = NoView])
       ELSE IF Cardinality(DOMAIN current_votes) >= Cardinality(alive_players)
       THEN SetPc(t, "vote_closing")
       ELSE SetTask(t, [tasks[t] EXCEPT !.elapsed = @ + 1])
    /\ UNCHANGED <<active, game, budget>>

VoteClose(t) ==
    /\ tasks[t].pc = "vote_closing"
    /\ SetTask(t, [tasks[t] EXCEPT !.pc = "vote_cleanup", !.vview = NoView])
    /\ UNCHANGED <<active, game, budget>>

\* start_day lines 735-742: the tally.
vote_counts(votes, target) ==
    Cardinality({v \in DOMAIN votes : votes[v] = target})

VoteTargets(votes) == {votes[v] : v \in DOMAIN votes}

max_votes(votes) ==
    CHOOSE n \in 1..Cardinality(DOMAIN votes) :
        /\ \E x \in VoteTargets(votes) : vote_counts(votes, x) = n
        /\ \A x \in VoteTargets(votes) : vote_counts(votes, x) <= n

eliminated(votes) ==
    {x \in VoteTargets(votes) : vote_counts(votes, x) = max_votes(votes)}

\* start_day lines 734-764, up to the await of the message of the outcome.
VoteResolve(t) ==
    /\ tasks[t].pc = "vote_cleanup"
    /\ IF DOMAIN current_votes # {} /\ Cardinality(eliminated(current_votes)) = 1
       THEN LET e == CHOOSE x \in eliminated(current_votes) : TRUE
            IN  IF e \in players /\ HasKey(player_roles, e) /\ e \in alive_players
                THEN /\ alive_players' = alive_players \ {e}
                     /\ dead_players' = Append(dead_players, e)
                     /\ SetTask(t, EndTask("vote_outcome"))
                ELSE /\ SetTask(t, EndTask("crashed"))
                     /\ UNCHANGED <<alive_players, dead_players>>
       ELSE /\ SetTask(t, EndTask("vote_outcome"))
            /\ UNCHANGED <<alive_players, dead_players>>
    /\ UNCHANGED <<active, players, player_roles, night_actions,
                   current_votes, state, budget>>

\* ------------------------------------------------------------- submissions
Rec(a, kind, target) == [actor |-> a, action |-> kind, target |-> target]

\* CommandAccepted were the target not looked up among the alive players.
CommandAcceptedAnyTarget(a, role, target, in_channel, no_self) ==
    /\ state = "NIGHT"
    /\ a \in alive_players
    /\ HasKey(player_roles, a)
    /\ player_roles[a] = role
    /\ in_channel
    /\ ~(no_self /\ target = a)

\* The checks of handle_kill_command, handle_protect_command and
\* handle_investigate_command (lines 1271-1295, 1305-1325, 1335-1359), in
\* the order of the code.  in_channel: the command was typed in the role's
\* channel.  target: the alive player whose display name was typed, or an
\* id that is not alive when the name matches no alive player.  A KeyError
\* of self.player_roles[author] ends the handler like a rejection does.
CommandAccepted(a, role, target, in_channel, no_self) ==
    /\ state = "NIGHT"
    /\ a \in alive_players
    /\ HasKey(player_roles, a)
    /\ player_roles[a] = role
    /\ in_channel
    /\ target \in alive_players
    /\ ~(no_self /\ target = a)

Accept(a, kind, target) ==
    /\ nsub > 0
    /\ nsub' = nsub - 1
    /\ resub' = (a \in Actors(night_actions))
    /\ night_actions' = Upsert(night_actions, Rec(a, kind, target))

\* A submission that fails the handler's checks is answered and changes
\* nothing: it is a stuttering step, which [Next]_vars allows, so the
\* submission actions below are the accepted submissions.
NightCommand(a, kind, role, target, in_channel, no_self) ==
    /\ active
    /\ CommandAccepted(a, role, target, in_channel, no_self)
    /\ Accept(a, kind, target)
    /\ UNCHANGED <<active, players, player_roles, alive_players, dead_players,
                   current_votes, state, tasks, nbegin, call>>

handle_kill_command(a, target, in_channel) ==
    NightCommand(a, "kill", "MAFIA", target, in_channel, TRUE)

handle_protect_command(a, target, in_channel) ==
    NightCommand(a, "protect", "DOCTOR", target, in_channel, FALSE)

handle_investigate_command(a, target, in_channel) ==
    NightCommand(a, "investigate", "DETECTIVE", target, in_channel, TRUE)

\* The check of kill_callback, protect_callback and investigate_callback
\* (lines 179, 210, 241): the user holds the role.
CallbackAccepted(a, role) ==
    HasKey(player_roles, a) /\ player_roles[a] = role

\* User a picks target in the select menu of a view of task t that takes
\* selections; a selection that is accepted stops the view (self.stop()).
kill_callback(t, a, target) ==
    /\ tasks[t].kview.live
    /\ target \in tasks[t].kview.opts
    /\ CallbackAccepted(a, "MAFIA")
    /\ Accept(a, "kill", target)
    /\ tasks' = [tasks EXCEPT ![t].kview = NoView]
    /\ UNCHANGED <<active, players, player_roles, alive_players, dead_players,
                   current_votes, state, nbegin, call>>

protect_callback(t, a, target) ==
    /\ tasks[t].pview.live
    /\ target \in tasks[t].pview.opts
    /\ CallbackAccepted(a, "DOCTOR")
    /\ Accept(a, "protect", target)
    /\ tasks' = [tasks EXCEPT ![t].pview = NoView]
    /\ UNCHANGED <<active, players, player_roles, alive_players, dead_players,
                   current_votes, state, nbegin, call>>

investigate_callback(t, a, target) ==
    /\ tasks[t].iview.live
    /\ target \in tasks[t].iview.opts
    /\ CallbackAccepted(a, "DETECTIVE")
    /\ Accept(a, "investigate", target)
    /\ tasks' = [tasks EXCEPT ![t].iview = NoView]
    /\ UNCHANGED <<active, players, player_roles, alive_players, dead_players,
                   current_votes, state, nbegin, call>>

\* dict[key] = value on current_votes.
VoteUpsert(votes, a, target) ==
    [v \in DOMAIN votes \cup {a} |-> IF v = a THEN target ELSE votes[v]]

\* vote_callback (lines 271-277): the user is alive.
VoteAccepted(a) == a \in alive_players

vote_callback(t, a, target) ==
    /\ tasks[t].vview.live
    /\ target \in tasks[t].vview.opts
    /\ VoteAccepted(a)
    /\ nsub > 0
    /\ nsub' = nsub - 1
    /\ resub' = (a \in DOMAIN current_votes)
    /\ current_votes' = VoteUpsert(current_votes, a, target)
    /\ UNCHANGED <<active, players, player_roles, alive_players, dead_players,
                   night_actions, state, tasks, nbegin, call>>

\* The steps of the phase tasks.
PhaseStep ==
    \/ \E t \in TaskIds : StartNight(t)
    \/ \E t \in TaskIds : OverEnded(t)
    \/ \E t \in TaskIds : OverReset(t)
    \/ \E t \in TaskIds : NightOpen(t)
    \/ \E t \in TaskIds : NightPoll(t)
    \/ \E t \in TaskIds : EndNightDecide(t)
    \/ \E t \in TaskIds : EndNightApply(t)
    \/ \E t \in TaskIds : EndNightReveal(t)
    \/ \E t \in TaskIds : StartDay(t)
    \/ \E t \in TaskIds : VoteOpen(t)
    \/ \E t \in TaskIds : VotePoll(t)
    \/ \E t \in TaskIds : VoteClose(t)
    \/ \E t \in TaskIds : VoteResolve(t)

\* The accepted submissions.  The users and targets are drawn where a
\* submission can be accepted at all: a command in the night, a selection
\* among the options of a view that takes selections.
NightSubmission ==
    \/ /\ state = "NIGHT"
       /\ \E a \in Ids, x \in Ids, c \in BOOLEAN : handle_kill_command(a, x, c)
    \/ /\ state = "NIGHT"
       /\ \E a \in Ids, x \in Ids, c \in BOOLEAN : handle_protect_command(a, x, c)
    \/ /\ state = "NIGHT"
       /\ \E a \in Ids, x \in Ids, c \in BOOLEAN : handle_investigate_command(a, x, c)
    \/ \E t \in TaskIds : \E a \in Ids, x \in tasks[t].kview.opts : kill_callback(t, a, x)
    \/ \E t \in TaskIds : \E a \in Ids, x \in tasks[t].pview.opts : protect_callback(t, a, x)
    \/ \E t \in TaskIds : \E a \in Ids, x \in tasks[t].iview.opts : investigate_callback(t, a, x)

VoteSubmission ==
    \E t \in TaskIds : \E a \in Ids, x \in tasks[t].vview.opts : vote_callback(t, a, x)

Submission == NightSubmission \/ VoteSubmission

Next ==
    \/ StartGame
    \/ EndGame
    \/ \E p \in Joiners : Join(p)
    \/ \E t \in TaskIds : Begin(t)
    \/ \E t \in TaskIds : BeginStarted(t)
    \/ \E t \in TaskIds : BeginSetupFails(t)
    \/ PhaseStep
    \/ Submission

Spec == Init /\ [][Next]_vars

\* The same program with a second `begin` accepted while the first game
\* runs, and fewer submissions.
InitRebegin ==
    /\ active = FALSE
    /\ players = {}
    /\ player_roles = EmptyMap
    /\ alive_players = {}
    /\ dead_players = <<>>
    /\ night_actions = <<>>
    /\ current_votes = EmptyMap
    /\ state = "WAITING"
    /\ tasks = [t \in TaskIds |-> IdleTask]
    /\ nsub = RebeginSubmits
    /\ nbegin = MaxTasks
    /\ resub = FALSE
    /\ call = NoCall

SpecRebegin == InitRebegin /\ [][Next]_vars

\* The same program from a state of a game of eight users, the smallest
\* game with two Mafia.  The state is the one this run reaches: users 1..8
\* join, `begin` gives the roles in the order of FirstAssignments (1 and 2
\* Mafia, 3 Detective, 4 Doctor), nobody ever acts at night, and in the
\* four votes user 3 alone votes: for 2, then 8, then 7, then 6, who are
\* eliminated in turn; the phase task awaits the message of the last
\* outcome.
EightRoles == CHOOSE f \in FirstAssignments(1..8) : TRUE

InitTwoMafia ==
    /\ active = TRUE
    /\ players = 1..8
    /\ player_roles = EightRoles
    /\ alive_players = {1, 3, 4, 5}
    /\ dead_players = <<2, 8, 7, 6>>
    /\ night_actions = <<>>
    /\ current_votes = [v \in {3} |-> 6]
    /\ state = "DAY"
    /\ tasks = [t \in TaskIds |-> IF t = 1 THEN EndTask("vote_outcome") ELSE IdleTask]
    /\ nsub = TwoMafiaSubmits
    /\ nbegin = 0
    /\ resub = FALSE
    /\ call = NoCall

\* No startgame, join or begin command arrives in these runs.
NextTwoMafia == EndGame \/ PhaseStep \/ Submission

SpecTwoMafia == InitTwoMafia /\ [][NextTwoMafia]_vars

\* The same program from a state of a game of twelve users, the smallest
\* game with three Mafia.  The state is the one this run reaches: users
\* 1..12 join, `begin` gives the roles in the order of FirstAssignments (1,
\* 2 and 3 Mafia, 4 Detective, 5 Doctor), nobody ever acts at night, and in
\* the five votes user 4 alone votes: for 12, then 11, 10, 9 and 8, who are
\* eliminated in turn; the phase task awaits the message of the last
\* outcome.
TwelveRoles ==
    [p \in 1..12 |->
        IF p <= NumMafia(12) THEN "MAFIA"
        ELSE IF p = NumMafia(12) + 1 THEN "DETECTIVE"
        ELSE IF p = NumMafia(12) + 2 THEN "DOCTOR"
        ELSE "VILLAGER"]

InitThreeMafia ==
    /\ active = TRUE
    /\ players = 1..12
    /\ player_roles = TwelveRoles
    /\ alive_players = 1..7
    /\ dead_players = <<12, 11, 10, 9, 8>>
    /\ night_actions = <<>>
    /\ current_votes = [v \in {4} |-> 8]
    /\ state = "DAY"
    /\ tasks = [t \in TaskIds |-> IF t = 1 THEN EndTask("vote_outcome") ELSE IdleTask]
    /\ nsub = ThreeMafiaSubmits
    /\ nbegin = 0
    /\ resub = FALSE
    /\ call = NoCall

\* The night that follows, in which the Mafia and the Doctor act and the
\* Detective does not, up to the call of start_day.
NextThreeMafia ==
    \/ \E t \in TaskIds : StartNight(t)
    \/ \E t \in TaskIds : NightOpen(t)
    \/ \E t \in TaskIds : NightPoll(t)
    \/ \E t \in TaskIds : EndNightDecide(t)
    \/ \E t \in TaskIds : EndNightApply(t)
    \/ \E t \in TaskIds : EndNightReveal(t)
    \/ /\ state = "NIGHT"
       /\ \E a \in Ids, x \in Ids, c \in BOOLEAN : handle_kill_command(a, x, c)
    \/ /\ state = "NIGHT"
       /\ \E a \in Ids, x \in Ids, c \in BOOLEAN : handle_protect_command(a, x, c)
    \/ \E t \in TaskIds : \E a \in Ids, x \in Ids : kill_callback(t, a, x)
    \/ \E t \in TaskIds : \E a \in Ids, x \in Ids : protect_callback(t, a, x)

SpecThreeMafia == InitThreeMafia /\ [][NextThreeMafia]_vars

\* ------------------------------------------------------ failing sends
\* A send of start_night, end_night or start_day that stands outside every
\* try block raises (discord.HTTPException): the night announcement (lines
\* 781-785), the morning story (876), the story or message of the night's
\* outcome (885, 890, 892), the investigation result (900), the message of
\* the vote's outcome (752, 757, 762).  The exception leaves the coroutine
\* and the coroutines that await it: the task dies where it stands.
UncaughtSends ==
    {"night_announce", "morning", "night_outcome", "reveal_sent", "vote_outcome"}

SendFails(t) ==
    /\ tasks[t].pc \in UncaughtSends
    /\ SetTask(t, EndTask("crashed"))
    /\ UNCHANGED <<active, game, budget>>

\* A send inside a try block raises: the first menu of the night (lines
\* 805-824, caught at 848), the first message of the vote (701-702, caught
\* at 729) or "Everyone has voted!" (710).  The handler prints and passes:
\* the loop and view.stop() are skipped and the resolution follows.
SendCaught(t) ==
    /\ tasks[t].pc \in {"night_announce", "day_announce", "vote_closing"}
    /\ SetPc(t, IF tasks[t].pc = "night_announce" THEN "night_cleanup" ELSE "vote_cleanup")
    /\ UNCHANGED <<active, game, budget>>

\* The same program with sends that may fail, and fewer submissions.
InitSendFails ==
    /\ active = FALSE
    /\ players = {}
    /\ player_roles = EmptyMap
    /\ alive_players = {}
    /\ dead_players = <<>>
    /\ night_actions = <<>>
    /\ current_votes = EmptyMap
    /\ state = "WAITING"
    /\ tasks = [t \in TaskIds |-> IdleTask]
    /\ nsub = SendFailSubmits
    /\ nbegin = MaxBegins
    /\ resub = FALSE
    /\ call = NoCall

NextSendFails ==
    \/ Next
    \/ \E t \in TaskIds : SendFails(t)
    \/ \E t \in TaskIds : SendCaught(t)

SpecSendFails == InitSendFails /\ [][NextSendFails]_vars

\* ------------------------------------------------------ simulated players
\* The test of process_npc_actions and send_role_dms for an NPCPlayer.
IsSimulated(p) == p >= npc_base_id

\* A roster that was padded to four: three users and one NPCPlayer, as
\* add_npcs_if_needed builds it.  No command of the bot calls
\* add_npcs_if_needed: the padded roster is an input here.
SimulatedRoster == 1..(MIN_PLAYERS - 1) \cup {npc_base_id}

\* The same program from the state in which begin_game, on the padded
\* roster with any assignment of the roles, awaits its announcement; no
\* startgame, join or begin command arrives.  start_night does not call
\* process_npc_actions, and nothing else does: the steps are those of the
\* users and of the phase task.
InitSimulated ==
    /\ active = TRUE
    /\ players = SimulatedRoster
    /\ player_roles \in RoleAssignments(SimulatedRoster)
    /\ alive_players = SimulatedRoster
    /\ dead_players = <<>>
    /\ night_actions = <<>>
    /\ current_votes = EmptyMap
    /\ state = "IN_PROGRESS"
    /\ tasks = [t \in TaskIds |-> IF t = 1 THEN EndTask("begin_announce") ELSE IdleTask]
    /\ nsub = SimulatedSubmits
    /\ nbegin = 0
    /\ resub = FALSE
    /\ call = NoCall

SpecSimulated == InitSimulated /\ [][NextTwoMafia]_vars

\* The steps of phase task t.  The event loop runs every task that is ready:
\* a task whose await has completed (a message sent, sleep(1) returned) is
\* resumed, so a step of a task that stays possible is eventually taken.
TaskStep(t) ==
    \/ BeginStarted(t) \/ BeginSetupFails(t)
    \/ StartNight(t) \/ OverEnded(t) \/ OverReset(t)
    \/ NightOpen(t) \/ NightPoll(t)
    \/ EndNightDecide(t) \/ EndNightApply(t) \/ EndNightReveal(t)
    \/ StartDay(t) \/ VoteOpen(t) \/ VotePoll(t) \/ VoteClose(t) \/ VoteResolve(t)

\* At most FairSubmits submissions are accepted: the actors take part in
\* part or not at all.
InitFair ==
    /\ active = FALSE
    /\ players = {}
    /\ player_roles = EmptyMap
    /\ alive_players = {}
    /\ dead_players = <<>>
    /\ night_actions = <<>>
    /\ current_votes = EmptyMap
    /\ state = "WAITING"
    /\ tasks = [t \in TaskIds |-> IdleTask]
    /\ nsub = FairSubmits
    /\ nbegin = MaxBegins
    /\ resub = FALSE
    /\ call = NoCall

SpecFair == InitFair /\ [][Next]_vars /\ \A t \in TaskIds : WF_vars(TaskStep(t))

\* !startgame typed while a phase task holds the registered game object
\* (lines 1439-1444): the same test of the state, and when it passes
\* active_games points to a new object.  The variables follow the object
\* active_games points to; the tasks of the replaced object go on with that
\* object out of the model's sight ("orphaned").
StartGameWhileTask ==
    /\ \E t \in TaskIds : tasks[t].pc # "idle"
    /\ IF active /\ state # "WAITING"
       THEN UNCHANGED <<active, game, tasks>>
       ELSE /\ active' = TRUE
            /\ players' = {}
            /\ player_roles' = EmptyMap
            /\ alive_players' = {}
            /\ dead_players' = <<>>
            /\ night_actions' = <<>>
            /\ current_votes' = EmptyMap
            /\ state' = "WAITING"
            /\ tasks' = [t \in TaskIds |->
                           IF tasks[t].pc \in {"idle", "done", "crashed"}
                           THEN tasks[t] ELSE EndTask("orphaned")]
    /\ UNCHANGED budget

InitRestart ==
    /\ active = FALSE
    /\ players = {}
    /\ player_roles = EmptyMap
    /\ alive_players = {}
    /\ dead_players = <<>>
    /\ night_actions = <<>>
    /\ current_votes = EmptyMap
    /\ state = "WAITING"
    /\ tasks = [t \in TaskIds |-> IdleTask]
    /\ nsub = RestartSubmits
    /\ nbegin = MaxBegins
    /\ resub = FALSE
    /\ call = NoCall

NextRestart == Next \/ StartGameWhileTask

SpecRestart == InitRestart /\ [][NextRestart]_vars

\* assign_roles called on the roster as it stands, whatever its size: for
\* fewer than four it raises ValueError (line 471) before it writes.  One
\* call is followed per run.
assign_roles ==
    /\ nbegin > 0
    /\ IF Cardinality(players) < 4
       THEN UNCHANGED <<player_roles, alive_players, dead_players, nbegin, call>>
       ELSE /\ nbegin' = nbegin - 1
            /\ \E f \in RoleAssignments(players) : player_roles' = f
            /\ alive_players' = players
            /\ dead_players' = <<>>
    /\ UNCHANGED <<active, players, night_actions, current_votes, state, tasks,
                   nsub, resub, call>>

\* A game that waits with any roster of the users.
InitRoles ==
    /\ active = TRUE
    /\ players \in SUBSET Ids
    /\ player_roles = EmptyMap
    /\ alive_players = {}
    /\ dead_players = <<>>
    /\ night_actions = <<>>
    /\ current_votes = EmptyMap
    /\ state = "WAITING"
    /\ tasks = [t \in TaskIds |-> IdleTask]
    /\ nsub = 0
    /\ nbegin = MaxBegins
    /\ resub = FALSE
    /\ call = NoCall

NextRoles == assign_roles \/ \E t \in TaskIds : Begin(t)

SpecRoles == InitRoles /\ [][NextRoles]_vars

\* The same program with one user more who may type `join`, so that a user
\* outside the roster exists while a game runs, and fewer submissions.
JoinIds == 1..(NumActors + 1)

InitJoin ==
    /\ active = FALSE
    /\ players = {}
    /\ player_roles = EmptyMap
    /\ alive_players = {}
    /\ dead_players = <<>>
    /\ night_actions = <<>>
    /\ current_votes = EmptyMap
    /\ state = "WAITING"
    /\ tasks = [t \in TaskIds |-> IdleTask]
    /\ nsub = JoinSubmits
    /\ nbegin = MaxBegins
    /\ resub = FALSE
    /\ call = NoCall

NextJoin == Next \/ \E p \in JoinIds : Join(p)

SpecJoin == InitJoin /\ [][NextJoin]_vars

\* ------------------------------------------------- GrokAgent, StoryTeller
\* A text is modelled by its length; the fallback string is told apart
\* from every other text, None from every text.
NoneText == [kind |-> "none", len |-> 0]

FallbackText == [kind |-> "fallback", len |-> FallbackLen]

Str(n) == [kind |-> "str", len |-> n]

\* The lengths and limits followed: around zero, around the length of the
\* fallback string and around the default limit.
TextLens ==
    {0, 1, FallbackLen - 1, FallbackLen, FallbackLen + 1,
     DefaultMaxLength - 1, DefaultMaxLength, DefaultMaxLength + 1}

MaxLengths == {0, 1, FallbackLen, FallbackLen + 1, DefaultMaxLength}

\* What a request to the API can do: answer with a status other than 200,
\* raise (the connection, the JSON, the shape of the answer), or answer 200
\* with a content that is null or a text.
OracleOutcomes ==
    {[status |-> st, content |-> NoneText] : st \in {"error", "exception"}}
        \cup {[status |-> "ok", content |-> c] :
                 c \in {NoneText} \cup {Str(n) : n \in TextLens}}

\* GrokAgent.run: the content, or the fallback string.
run(o) == IF o.status = "ok" THEN o.content ELSE FallbackText

\* `not response`
Falsy(r) == r.kind = "none" \/ r.len = 0

\* Slice were response[:max_length] to return the response whole.
SliceWhole(r, m) == r

\* response[:max_length] of a str, for max_length >= 0.
Slice(r, m) == IF r.len <= m THEN r ELSE Str(m)

StoryCall(m) ==
    [fn |-> "generate_story", max_length |-> m, pc |-> "first", calls |-> 0,
     first |-> NoneText, response |-> NoneText, result |-> NoneText]

StoryReturn(r, result) ==
    call' = [call EXCEPT !.pc = "returned", !.calls = @ + 1,
                         !.response = r, !.result = result]

\* generate_story from its call to the return of the first agent.run.
\* (first keeps the text that was too long, response the last answer.)
StoryFirst(o) ==
    /\ call.fn = "generate_story"
    /\ call.pc = "first"
    /\ LET response == run(o)
       IN  IF Falsy(response) THEN StoryReturn(response, FallbackText)
           ELSE IF response.len > call.max_length
           THEN call' = [call EXCEPT !.pc = "second", !.calls = @ + 1,
                                     !.first = response, !.response = response]
           ELSE StoryReturn(response, response)
    /\ UNCHANGED <<active, game, tasks, nsub, nbegin, resub>>

\* generate_story after the second agent.run.  None[:max_length] raises
\* TypeError, which the except clause turns into the fallback string.
StorySecond(o) ==
    /\ call.fn = "generate_story"
    /\ call.pc = "second"
    /\ LET response == run(o)
       IN  IF Falsy(response) \/ response.len > call.max_length
           THEN StoryReturn(response,
                            IF response.kind = "none" THEN FallbackText
                            ELSE Slice(response, call.max_length))
           ELSE StoryReturn(response, response)
    /\ UNCHANGED <<active, game, tasks, nsub, nbegin, resub>>

\* generate_story is called with some limit; nothing else runs.
InitStory ==
    /\ active = FALSE
    /\ players = {}
    /\ player_roles = EmptyMap
    /\ alive_players = {}
    /\ dead_players = <<>>
    /\ night_actions = <<>>
    /\ current_votes = EmptyMap
    /\ state = "WAITING"
    /\ tasks = [t \in TaskIds |-> IdleTask]
    /\ nsub = 0
    /\ nbegin = 0
    /\ resub = FALSE
    /\ call \in {StoryCall(m) : m \in MaxLengths}

NextStory ==
    \/ \E o \in OracleOutcomes : StoryFirst(o)
    \/ \E o \in OracleOutcomes : StorySecond(o)

SpecStory == InitStory /\ [][NextStory]_vars

\* ---------------------------------------------------------- get_npc_action
\* The lists without repetition of members of S: the orders alive_players
\* can have.  Here the order is observed (the first match wins).
RECURSIVE ListsOf(_)
ListsOf(S) ==
    {<<>>} \cup UNION {{<<p>> \o l : l \in ListsOf(S \ {p})} : p \in S}

\* NpcTargets were the NPC itself left among the targets.
NpcTargetsAll(alive, npc) == alive

\* targets = [pid for pid in self.alive_players if pid != npc_id]
NpcTargets(alive, npc) == SelectSeq(alive, LAMBDA p : p # npc)

\* What agent.run gives get_npc_action: None (a null content, on which
\* .strip() raises) or a text, of which only the set of targets whose
\* lowercased name it contains matters.  The fallback string of a failed
\* request is such a text.
NpcOutcomes(targets) ==
    {[kind |-> "none", matches |-> {}]}
        \cup {[kind |-> "text", matches |-> m] : m \in SUBSET SeqSet(targets)}

\* The loop of lines 1083-1086: the first target, in the order of the
\* list, whose name the text contains; None when there is none.
RECURSIVE best_match(_, _)
best_match(targets, matches) ==
    IF targets = <<>> THEN None
    ELSE IF Head(targets) \in matches THEN Head(targets)
    ELSE best_match(Tail(targets), matches)

NpcCall(npc, alive) ==
    [fn |-> "get_npc_action", npc |-> npc, alive |-> alive, pc |-> "entered",
     targets |-> <<>>, outcome |-> [kind |-> "none", matches |-> {}],
     result |-> None]

\* get_npc_action from its call to the await of agent.run, or to the
\* return of None when there is no target.
NpcEnter ==
    /\ call.fn = "get_npc_action"
    /\ call.pc = "entered"
    /\ LET targets == NpcTargets(call.alive, call.npc)
       IN  call' = [call EXCEPT !.targets = targets,
                                !.pc = IF targets = <<>> THEN "returned" ELSE "oracle"]
    /\ UNCHANGED <<active, game, tasks, nsub, nbegin, resub>>

\* get_npc_action after agent.run: the match, or random.choice(targets),
\* also when the except clause is reached; pick is what random.choice
\* draws.
NpcChoose(o, pick) ==
    /\ call.fn = "get_npc_action"
    /\ call.pc = "oracle"
    /\ o \in NpcOutcomes(call.targets)
    /\ pick \in SeqSet(call.targets)
    /\ LET m == IF o.kind = "none" THEN None ELSE best_match(call.targets, o.matches)
       IN  call' = [call EXCEPT !.pc = "returned", !.outcome = o,
                                !.result = IF m # None THEN m ELSE pick]
    /\ UNCHANGED <<active, game, tasks, nsub, nbegin, resub>>

FourRoles == CHOOSE f \in FirstAssignments(Joiners) : TRUE

\* get_npc_action is called for a player of a game whose alive_players is
\* any list of its players; nothing else runs.
InitNpc ==
    /\ active = TRUE
    /\ players = Joiners
    /\ player_roles = FourRoles
    /\ call \in {NpcCall(npc, alive) : npc \in Joiners, alive \in ListsOf(Joiners)}
    /\ alive_players = SeqSet(call.alive)
    /\ dead_players = <<>>
    /\ night_actions = <<>>
    /\ current_votes = EmptyMap
    /\ state = "NIGHT"
    /\ tasks = [t \in TaskIds |-> IdleTask]
    /\ nsub = 0
    /\ nbegin = 0
    /\ resub = FALSE

NextNpc ==
    \/ NpcEnter
    \/ \E m \in SUBSET Joiners, pick \in Joiners :
          \/ NpcChoose([kind |-> "none", matches |-> {}], pick)
          \/ NpcChoose([kind |-> "text", matches |-> m], pick)

SpecNpc == InitNpc /\ [][NextNpc]_vars

\* ------------------------------------------------------------ MistralAgent
\* Time is counted in seconds.  The callers are the coroutines that call
\* run(); each is at one of: idle, blocked (waiting for the semaphore),
\* sleep_interval (line 50), sleep_rate (line 57), api (line 85), backoff
\* (run raised and the decorator waits before it calls run again).
Callers == 1..NumCallers

\* _is_rate_limited line 39: the timestamps younger than the window.
Pruned(ts, now) == SelectSeq(ts, LAMBDA x : now - x < Window)

\* is_rate_limited were the limit never found reached.
is_rate_limitedNever(ts, now) == FALSE

\* _is_rate_limited line 40, on the list line 39 leaves.
is_rate_limited(ts, now) == Len(Pruned(ts, now)) >= requests_per_minute

\* The agent at second StartClock: last_request_time and request_timestamps
\* as given, nobody inside run().
AgentAt(last, ts) ==
    [fn |-> "MistralAgent", now |-> StartClock,
     last_request_time |-> last, request_timestamps |-> ts,
     semaphore |-> SemaphorePermits,
     pc |-> [c \in Callers |-> "idle"], wake |-> [c \in Callers |-> 0]]

\* _wait_for_capacity from line 53 on and run lines 73-85, for caller c of
\* agent a: rate limited, the list is pruned and the caller sleeps 2 s;
\* otherwise the loop ends and the request is recorded (lines 79-81) with no
\* await in between, and the caller waits for the API.
RateCheck(c, a) ==
    IF is_rate_limited(a.request_timestamps, a.now)
    THEN [a EXCEPT !.request_timestamps = Pruned(a.request_timestamps, a.now),
                   !.pc[c] = "sleep_rate", !.wake[c] = a.now + RateSleep]
    ELSE [a EXCEPT !.request_timestamps = Append(Pruned(a.request_timestamps, a.now), a.now),
                   !.last_request_time = a.now,
                   !.pc[c] = "api", !.wake[c] = 0]

\* _wait_for_capacity from the head of its loop (lines 45-53).
LoopHead(c, a) ==
    LET time_since_last == a.now - a.last_request_time
    IN  IF time_since_last < min_request_interval
        THEN [a EXCEPT !.pc[c] = "sleep_interval",
                       !.wake[c] = a.now + (min_request_interval - time_since_last)]
        ELSE RateCheck(c, a)

\* `async with self.semaphore` (line 70): a free permit is taken without
\* suspending, otherwise the caller waits for one.
Enter(c) ==
    IF call.semaphore > 0
    THEN LoopHead(c, [call EXCEPT !.semaphore = @ - 1])
    ELSE [call EXCEPT !.pc[c] = "blocked"]

AgentStep(next) ==
    /\ call.fn = "MistralAgent"
    /\ call' = next
    /\ UNCHANGED <<active, game, tasks, nsub, nbegin, resub>>

\* run() is called.
AgentRun(c) == call.pc[c] = "idle" /\ AgentStep(Enter(c))

\* The decorator calls run() again after an exception.
AgentRetry(c) == call.pc[c] = "backoff" /\ AgentStep(Enter(c))

\* A caller waiting for the semaphore gets a permit.
AgentAcquire(c) ==
    /\ call.pc[c] = "blocked"
    /\ call.semaphore > 0
    /\ AgentStep(LoopHead(c, [call EXCEPT !.semaphore = @ - 1]))

\* asyncio.sleep of line 50 returns, at its time or later.
AgentWakeInterval(c) ==
    /\ call.pc[c] = "sleep_interval"
    /\ call.now >= call.wake[c]
    /\ AgentStep(RateCheck(c, call))

\* asyncio.sleep(2) of line 57 returns, and the loop starts over.
AgentWakeRate(c) ==
    /\ call.pc[c] = "sleep_rate"
    /\ call.now >= call.wake[c]
    /\ AgentStep(LoopHead(c, call))

\* The API call returns: the semaphore is released and run returns.
AgentReturns(c) ==
    /\ call.pc[c] = "api"
    /\ AgentStep([call EXCEPT !.semaphore = @ + 1, !.pc[c] = "idle"])

\* The API call raises: the semaphore is released, run re-raises (line 100).
AgentRaises(c) ==
    /\ call.pc[c] = "api"
    /\ AgentStep([call EXCEPT !.semaphore = @ + 1, !.pc[c] = "backoff"])

\* A second passes.
AgentTick ==
    /\ call.now < StartClock + AgentTicks
    /\ AgentStep([call EXCEPT !.now = @ + 1])

\* The agent as constructed (lines 26-33), or after PriorRequests requests
\* made one a second by one caller and then left alone until StartClock.
InitAgent ==
    /\ active = FALSE
    /\ players = {}
    /\ player_roles = EmptyMap
    /\ alive_players = {}
    /\ dead_players = <<>>
    /\ night_actions = <<>>
    /\ current_votes = EmptyMap
    /\ state = "WAITING"
    /\ tasks = [t \in TaskIds |-> IdleTask]
    /\ nsub = 0
    /\ nbegin = 0
    /\ resub = FALSE
    /\ call \in {AgentAt(0, <<>>),
                 AgentAt(PriorRequests, [i \in 1..PriorRequests |-> i])}

NextAgent ==
    \/ \E c \in Callers : AgentRun(c)
    \/ \E c \in Callers : AgentRetry(c)
    \/ \E c \in Callers : AgentAcquire(c)
    \/ \E c \in Callers : AgentWakeInterval(c)
    \/ \E c \in Callers : AgentWakeRate(c)
    \/ \E c \in Callers : AgentReturns(c)
    \/ \E c \in Callers : AgentRaises(c)
    \/ AgentTick

SpecAgent == InitAgent /\ [][NextAgent]_vars

\* ------------------------------------------------------------ process_votes
\* A call of process_votes(poll_id): known says whether poll_id is a key of
\* active_polls, votes is view.get_votes() of that poll (voter -> target).
VoteMaps == UNION {[V -> Joiners] : V \in SUBSET (1..NumVoters)}

PollCall(known, votes) ==
    [fn |-> "process_votes", pc |-> "entered", known |-> known, votes |-> votes,
     drawn |-> None, removed |-> FALSE]

\* Lines 573-579: the targets whose count is max(vote_counts.values()).
potential_targets(votes) ==
    {x \in VoteTargets(votes) : vote_counts(votes, x) = max_votes(votes)}

\* Lines 562-571: the poll is not in active_polls, or nobody voted.
ProcessVotesNothing ==
    /\ call.fn = "process_votes"
    /\ call.pc = "entered"
    /\ ~call.known \/ DOMAIN call.votes = {}
    /\ call' = [call EXCEPT !.pc = "returned"]
    /\ UNCHANGED <<active, game, tasks, nsub, nbegin, resub>>

\* Lines 573-602 with random.choice(potential_targets) drawing pick.
\* self.players[eliminated_id] raises KeyError for an id that is no player;
\* the except clause of line 601 ends the call with nothing changed.
ProcessVotesChoose(pick) ==
    /\ call.fn = "process_votes"
    /\ call.pc = "entered"
    /\ call.known
    /\ DOMAIN call.votes # {}
    /\ pick \in potential_targets(call.votes)
    /\ IF pick \in players /\ pick \in alive_players
       THEN /\ alive_players' = alive_players \ {pick}
            /\ dead_players' = Append(dead_players, pick)
            /\ call' = [call EXCEPT !.pc = "returned", !.drawn = pick,
                                    !.removed = TRUE, !.known = FALSE]
       ELSE /\ UNCHANGED <<alive_players, dead_players>>
            /\ call' = [call EXCEPT !.pc = "returned", !.drawn = pick,
                                    !.known = (pick \notin players)]
    /\ UNCHANGED <<active, players, player_roles, night_actions, current_votes,
                   state, tasks, nsub, nbegin, resub>>

\* process_votes is called in a game of four players of whom at most one
\* is dead, for a poll in which up to NumVoters users picked a player each
\* (PollSelect.callback, lines 133-137, stores any selection).
InitPoll ==
    /\ active = TRUE
    /\ players = Joiners
    /\ player_roles = FourRoles
    /\ alive_players \in {A \in SUBSET Joiners : Cardinality(A) >= MIN_PLAYERS - 1}
    /\ dead_players = CHOOSE l \in ListsOf(Joiners) :
                          /\ SeqSet(l) = Joiners \ alive_players
                          /\ \A i, j \in 1..Len(l) : i < j => l[i] < l[j]
    /\ night_actions = <<>>
    /\ current_votes = EmptyMap
    /\ state = "DAY"
    /\ tasks = [t \in TaskIds |-> IdleTask]
    /\ nsub = 0
    /\ nbegin = 0
    /\ resub = FALSE
    /\ call \in {PollCall(k, v) : k \in BOOLEAN, v \in VoteMaps}

NextPoll ==
    \/ ProcessVotesNothing
    \/ \E pick \in Joiners : ProcessVotesChoose(pick)

SpecPoll == InitPoll /\ [][NextPoll]_vars

\* ================================================================= claims
\* Steps of task t, recognised by what they do to its pc and locals.

\* Task t leaves pc `from` for pc `to`.
Moves(t, from, to) == tasks[t].pc = from /\ tasks'[t].pc = to

\* Task t takes one pass of the collection loop it waits in.
PollStep(t, pc) ==
    /\ tasks[t].pc = pc
    /\ tasks'[t].pc # pc \/ tasks'[t].elapsed # tasks[t].elapsed

\* Task t evaluates the win condition: start_night or start_day is entered.
Evaluates(t) ==
    /\ tasks[t].pc \in {"begin_announce", "vote_outcome", "night_outcome", "reveal_sent"}
    /\ tasks'[t].pc \in {"over_announce", "night_announce", "day_announce"}

AllAliveHaveRoles == \A p \in alive_players : HasKey(player_roles, p)

NothingMoves == alive_players' = alive_players /\ dead_players' = dead_players

MovesToDead(p) ==
    /\ p \in alive_players
    /\ alive_players' = alive_players \ {p}
    /\ dead_players' = Append(dead_players, p)

\* ---------------------------------------------------------------------- C1
\* The targets that hold the maximum vote count.
TopVoted(votes) ==
    {x \in VoteTargets(votes) :
        \A y \in VoteTargets(votes) : vote_counts(votes, y) <= vote_counts(votes, x)}

\* C1: when start_day resolves the vote and goes on, nobody is eliminated if
\* no vote was cast, and otherwise exactly one of the targets that hold the
\* maximum vote count moves from alive to dead (the only one when it is
\* alone, one of the n when n >= 2 tie).
C1_VoteResolution ==
    [][\A t \in TaskIds :
          Moves(t, "vote_cleanup", "vote_outcome") =>
              IF DOMAIN current_votes = {}
              THEN NothingMoves
              ELSE \E e \in TopVoted(current_votes) : MovesToDead(e)]_vars

\* ---------------------------------------------------------------------- C2
\* The positions of the records of night_actions whose actor holds role r.
RecordsOfRole(r) ==
    {i \in 1..Len(night_actions) :
        /\ HasKey(player_roles, night_actions[i].actor)
        /\ player_roles[night_actions[i].actor] = r}

\* The night holds one record of the Doctor, protect X, and one record of a
\* Mafia, who is alive, kill Y.
NightHolds(X, Y) ==
    /\ \A i \in 1..Len(night_actions) : HasKey(player_roles, night_actions[i].actor)
    /\ \E d \in RecordsOfRole("DOCTOR") :
          /\ RecordsOfRole("DOCTOR") = {d}
          /\ night_actions[d].action = "protect"
          /\ night_actions[d].target = X
    /\ \E m \in RecordsOfRole("MAFIA") :
          /\ RecordsOfRole("MAFIA") = {m}
          /\ night_actions[m].action = "kill"
          /\ night_actions[m].target = Y
          /\ night_actions[m].actor \in alive_players

\* C2: end_night on a night that holds protect X of the Doctor and kill Y of
\* an alive Mafia decides that nobody dies when X = Y and that Y dies when
\* X # Y; and what it then applies is what it decided: nothing moves when
\* nobody dies, and otherwise the one decided on, who is alive, and nobody
\* else, moves from alive to dead.
C2_NightResolution ==
    [][\A t \in TaskIds :
          /\ Moves(t, "night_cleanup", "morning") =>
                \A X, Y \in Ids :
                    NightHolds(X, Y) =>
                        /\ tasks'[t].protected = X
                        /\ tasks'[t].killed = (IF X = Y THEN None ELSE Y)
                        /\ NothingMoves
          /\ Moves(t, "morning", "night_outcome") =>
                IF tasks[t].killed = None THEN NothingMoves
                ELSE MovesToDead(tasks[t].killed)
          /\ Moves(t, "morning", "crashed") => NothingMoves]_vars

\* A night with protect X and kill Y, X # Y, has been resolved: Y is dead.
C2_Witness ==
    \E t \in TaskIds :
        /\ tasks[t].pc = "night_outcome"
        /\ tasks[t].protected # None
        /\ tasks[t].killed # None
        /\ tasks[t].killed # tasks[t].protected
        /\ NightHolds(tasks[t].protected, tasks[t].killed)
        /\ tasks[t].killed \notin alive_players
        /\ dead_players # <<>>
        /\ dead_players[Len(dead_players)] = tasks[t].killed

\* ---------------------------------------------------------------------- C3
\* night_actions after the step holds rec for its actor, and for every
\* other actor what it held before.
LastWriteWins(rec) ==
    /\ Actors(night_actions') = Actors(night_actions) \cup {rec.actor}
    /\ RecordOf(night_actions', rec.actor) = rec
    /\ \A b \in Actors(night_actions) \ {rec.actor} :
          RecordOf(night_actions', b) = RecordOf(night_actions, b)

VoteLastWriteWins(a, x) ==
    /\ DOMAIN current_votes' = DOMAIN current_votes \cup {a}
    /\ current_votes'[a] = x
    /\ \A b \in DOMAIN current_votes \ {a} : current_votes'[b] = current_votes[b]

\* C3: night_actions never holds two records of one actor; an accepted
\* kill, protect or investigate submission of actor a (command or menu)
\* leaves a's record equal to that submission and every other actor's
\* record as it was; an accepted vote does the same to current_votes.
\* (Every accepted submission, and no other step, changes nsub.)
C3_LastWriteWins ==
    [][/\ Len(night_actions') = Cardinality(Actors(night_actions'))
       /\ nsub' # nsub => \A a \in Ids, x \in Ids :
            /\ ((\E c \in BOOLEAN : handle_kill_command(a, x, c))
                   \/ (\E t \in TaskIds : kill_callback(t, a, x)))
                 => LastWriteWins(Rec(a, "kill", x))
            /\ ((\E c \in BOOLEAN : handle_protect_command(a, x, c))
                   \/ (\E t \in TaskIds : protect_callback(t, a, x)))
                 => LastWriteWins(Rec(a, "protect", x))
            /\ ((\E c \in BOOLEAN : handle_investigate_command(a, x, c))
                   \/ (\E t \in TaskIds : investigate_callback(t, a, x)))
                 => LastWriteWins(Rec(a, "investigate", x))
            /\ (\E t \in TaskIds : vote_callback(t, a, x))
                 => VoteLastWriteWins(a, x)]_vars

\* Two submissions of one actor have been accepted in a night, and the map
\* holds one record.
C3_Witness ==
    /\ resub
    /\ state = "NIGHT"
    /\ nsub + 2 = MaxSubmits
    /\ Len(night_actions) = 1

\* ---------------------------------------------------------------------- C4
\* The collection window of task t's night has closed and the night is
\* being resolved: from the end of the loop to the read of the
\* investigation.
WindowClosed(t) == tasks[t].pc \in {"night_cleanup", "morning", "night_outcome"}

\* C4: while the closed window's night is being resolved, no kill, protect
\* or investigate submission is accepted.
C4_ClosedWindowRejects ==
    [][(\E t \in TaskIds : WindowClosed(t)) => ~NightSubmission]_vars

\* ---------------------------------------------------------------------- C5
\* User a has a submission accepted in this step, on some path.
AcceptedNightSubmission(a, role) ==
    \E x \in Ids :
        \/ /\ role = "MAFIA"
           /\ \/ \E c \in BOOLEAN : handle_kill_command(a, x, c)
              \/ \E t \in TaskIds : kill_callback(t, a, x)
        \/ /\ role = "DOCTOR"
           /\ \/ \E c \in BOOLEAN : handle_protect_command(a, x, c)
              \/ \E t \in TaskIds : protect_callback(t, a, x)
        \/ /\ role = "DETECTIVE"
           /\ \/ \E c \in BOOLEAN : handle_investigate_command(a, x, c)
              \/ \E t \in TaskIds : investigate_callback(t, a, x)

\* C5: a submission is accepted only from an expected actor: at night from
\* an alive holder of the acting role, in the vote from an alive player.
C5_OnlyExpectedActors ==
    [][\A a \in Ids :
          /\ \A role \in {"MAFIA", "DOCTOR", "DETECTIVE"} :
                AcceptedNightSubmission(a, role) => a \in AliveWithRole(role)
          /\ (\E t \in TaskIds, x \in Ids : vote_callback(t, a, x))
                => a \in alive_players]_vars

C7_EarlyCloseOnlyWhenComplete ==
    [][\A t \in TaskIds :
          /\ (/\ Moves(t, "night_wait", "night_cleanup")
              /\ tasks[t].elapsed < WindowPolls)
                => (mafia_members \cup detective_members \cup doctor_members)
                       \subseteq Actors(night_actions)
          /\ Moves(t, "vote_wait", "vote_closing")
                => alive_players \subseteq DOMAIN current_votes]_vars

\* ---------------------------------------------------------------------- C8
\* C8: an evaluation of the win condition with no alive Mafia ends in the
\* verdict Village win, by check_game_over, which the phase tasks call, and
\* by check_win_conditions on the same state.
C8_NoMafiaVillageWins ==
    [][\A t \in TaskIds :
          (Evaluates(t) /\ AllAliveHaveRoles /\ AliveWithRole("MAFIA") = {}) =>
              /\ tasks'[t].pc = "over_announce"
              /\ tasks'[t].verdict = "village"
              /\ check_win_conditions = "village"]_vars

\* ---------------------------------------------------------------------- C9
\* C9: an evaluation of the win condition with at least one alive Mafia
\* ends in the verdict Mafia win when the alive Mafia are at least as many
\* as the other alive players, and otherwise in no verdict: the game goes
\* on to the night or the day.
C9_MafiaWinsAtParity ==
    [][\A t \in TaskIds :
          (Evaluates(t) /\ AllAliveHaveRoles /\ AliveWithRole("MAFIA") # {}) =>
              IF 2 * Cardinality(AliveWithRole("MAFIA")) >= Cardinality(alive_players)
              THEN tasks'[t].pc = "over_announce" /\ tasks'[t].verdict = "mafia"
              ELSE tasks'[t].pc \in {"night_announce", "day_announce"}]_vars

\* The Mafia win has been declared at an exact tie.
C9_Witness ==
    \E t \in TaskIds :
        /\ tasks[t].pc = "over_announce"
        /\ tasks[t].verdict = "mafia"
        /\ AllAliveHaveRoles
        /\ AliveWithRole("MAFIA") # {}
        /\ 2 * Cardinality(AliveWithRole("MAFIA")) = Cardinality(alive_players)

\* --------------------------------------------------------------------- C10
\* C10: while a game runs, alive_players and dead_players share no player
\* and together hold exactly the roster.
C10_AliveDeadPartition ==
    state \in {"IN_PROGRESS", "NIGHT", "DAY"} =>
        /\ alive_players \cap SeqSet(dead_players) = {}
        /\ alive_players \cup SeqSet(dead_players) = players

\* --------------------------------------------------------------------- C11
CountRole(r) == Cardinality({p \in DOMAIN player_roles : player_roles[p] = r})

\* C11: once assign_roles has run on a roster of N >= 4, every player of the
\* roster has one role; max(1, N div 4) of them are Mafia, one is the
\* Detective, one the Doctor, and all the others are Villagers.
C11_RoleCounts ==
    player_roles # EmptyMap =>
        LET N == Cardinality(players)
        IN  /\ N >= 4
            /\ DOMAIN player_roles = players
            /\ \A p \in players : player_roles[p] \in Roles
            /\ CountRole("MAFIA") = (IF N \div 4 >= 1 THEN N \div 4 ELSE 1)
            /\ CountRole("DETECTIVE") = 1
            /\ CountRole("DOCTOR") = 1
            /\ CountRole("VILLAGER") = N - CountRole("MAFIA") - 2

\* Roles have been assigned to a roster of eight: two Mafia.
C11_Witness ==
    /\ Cardinality(players) = 8
    /\ DOMAIN player_roles = players
    /\ CountRole("MAFIA") = 2
    /\ CountRole("VILLAGER") = 4

\* --------------------------------------------------------------------- C12
\* C12: once roles are assigned, player_roles changes only by being
\* emptied (the reset at the end of the game or by endgame).
C12_RolesAssignedOnce ==
    [][(player_roles # EmptyMap /\ player_roles' # EmptyMap)
          => player_roles' = player_roles]_vars

\* --------------------------------------------------------------------- C13
\* C13: with fewer than four players in the roster, a begin request and a
\* call of assign_roles leave player_roles, alive_players, dead_players and
\* the phase as they are, and no phase task starts.
C13_BeginNeedsFour ==
    [][(Cardinality(players) < 4 /\ ((\E t \in TaskIds : Begin(t)) \/ assign_roles))
          => /\ UNCHANGED <<player_roles, alive_players, dead_players, state, tasks>>
             /\ state = "WAITING"]_vars

\* A game waits with one to three players: a begin request is rejected here.
C13_Witness ==
    /\ active
    /\ players # {}
    /\ Cardinality(players) < 4
    /\ state = "WAITING"
    /\ player_roles = EmptyMap
    /\ \A t \in TaskIds : tasks[t].pc = "idle"

\* --------------------------------------------------------------------- C14
\* Task t takes a step.
Steps(t) == tasks'[t] # tasks[t]

\* C14: the step of a night resolution that applies the kill and the step
\* of a vote resolution that applies the tally move nobody or exactly one
\* alive player, from alive to dead, and leave every other player where he
\* is; no other step of a resolution moves anybody.
C14_AtMostOneElimination ==
    [][\A t \in TaskIds :
          /\ (Steps(t) /\ tasks[t].pc \in {"morning", "vote_cleanup"})
                => NothingMoves \/ \E p \in alive_players : MovesToDead(p)
          /\ (Steps(t) /\ tasks[t].pc \in {"night_cleanup", "night_outcome",
                                            "reveal_sent", "vote_closing"})
                => NothingMoves]_vars

\* A vote has eliminated its target: the last of dead_players.
C14_Witness ==
    \E t \in TaskIds :
        /\ tasks[t].pc = "vote_outcome"
        /\ dead_players # <<>>
        /\ dead_players[Len(dead_players)] \in VoteTargets(current_votes)
        /\ dead_players[Len(dead_players)] \notin alive_players
        /\ alive_players \cup SeqSet(dead_players) = players
        /\ Cardinality(alive_players) + Len(dead_players) = Cardinality(players)

\* --------------------------------------------------------------------- C15
AllowedPhaseChanges ==
    {<<"WAITING", "NIGHT">>, <<"NIGHT", "DAY">>, <<"DAY", "VOTING">>,
     <<"VOTING", "NIGHT">>}

\* C15: the phase takes only the values Waiting, Night, Day, Voting and
\* Ended, and changes only from Waiting to Night, Night to Day, Day to
\* Voting, Voting to Night, and from any phase to Ended.
C15_PhaseTransitions ==
    [][/\ state' \in {"WAITING", "NIGHT", "DAY", "VOTING", "ENDED"}
       /\ state' # state =>
            (state' = "ENDED" \/ <<state, state'>> \in AllowedPhaseChanges)]_vars

\* --------------------------------------------------------------------- C16
\* The win evaluator of task t has reported a winner: the announcement is
\* awaited, or the cleanup of the game, or the task has returned.
WinnerReported(t) == tasks[t].pc \in {"over_announce", "over_cleanup", "done"}

\* C16: once a winner is reported no kill, protect, investigate or vote
\* submission is accepted.
C16_EndedRejectsSubmissions ==
    [][(\E t \in TaskIds : WinnerReported(t)) => ~Submission]_vars

\* --------------------------------------------------------------------- C17
\* C17: a join of user p adds p, and nobody else, to the roster when the
\* game waits and p is not in it; otherwise it leaves the roster as it is.
\* It changes nothing else.
C17_Join ==
    [][\A p \in JoinIds :
          Join(p) =>
              /\ players' = (IF state = "WAITING" /\ p \notin players
                             THEN players \cup {p} ELSE players)
              /\ UNCHANGED <<player_roles, alive_players, dead_players, state>>]_vars

\* A game runs and a user is outside its roster: his join is rejected.
C17_Witness ==
    /\ active
    /\ state \in {"IN_PROGRESS", "NIGHT", "DAY"}
    /\ Cardinality(players) >= MIN_PLAYERS
    /\ \E p \in JoinIds : p \notin players

\* --------------------------------------------------------------------- C18
\* A reason to reject the command of author a with target x: wrong phase,
\* dead author, author without the role, wrong channel, a target that is
\* not an alive player, a forbidden self-target.
RejectionReason(a, role, x, in_channel, no_self) ==
    \/ state # "NIGHT"
    \/ a \notin alive_players
    \/ ~HasKey(player_roles, a)
    \/ player_roles[a] # role
    \/ ~in_channel
    \/ x \notin alive_players
    \/ (no_self /\ x = a)

GameUntouched ==
    UNCHANGED <<night_actions, alive_players, dead_players, player_roles, state>>

\* C18: a kill, protect or investigate command for which a reason to
\* reject it holds changes none of night_actions, alive_players,
\* dead_players, player_roles and the phase.  (A command that changes
\* night_actions changes nsub.)
C18_RejectedCommandChangesNothing ==
    [][nsub' # nsub =>
          \A a \in Ids, x \in Ids, c \in BOOLEAN :
              /\ (handle_kill_command(a, x, c)
                     /\ RejectionReason(a, "MAFIA", x, c, TRUE))
                   => GameUntouched
              /\ (handle_protect_command(a, x, c)
                     /\ RejectionReason(a, "DOCTOR", x, c, FALSE))
                   => GameUntouched
              /\ (handle_investigate_command(a, x, c)
                     /\ RejectionReason(a, "DETECTIVE", x, c, TRUE))
                   => GameUntouched]_vars

\* A night in which the Doctor is dead: his protect command is rejected.
C18_Witness ==
    /\ active
    /\ state = "NIGHT"
    /\ alive_players # {}
    /\ \E a \in DOMAIN player_roles :
          player_roles[a] = "DOCTOR" /\ a \notin alive_players

\* --------------------------------------------------------------------- C19
\* C19: a call of generate_story never ends in an exception, asks the
\* oracle at most twice, and returns the fallback string or a text no
\* longer than max_length.
C19_StoryNeverRaises ==
    (call.fn = "generate_story") =>
        /\ call.pc \in {"first", "second", "returned"}
        /\ call.calls <= 2
        /\ call.pc = "returned" =>
              \/ call.result = FallbackText
              \/ call.result.kind = "str" /\ call.result.len <= call.max_length

\* The shortened text was still too long and has been cut to max_length.
C19_Witness ==
    /\ call.fn = "generate_story"
    /\ call.pc = "returned"
    /\ call.calls = 2
    /\ call.response.kind = "str"
    /\ call.response.len > call.max_length
    /\ call.result = Str(call.max_length)

\* --------------------------------------------------------------------- C20
\* The position of p in list l.
PosIn(l, p) == CHOOSE i \in 1..Len(l) : l[i] = p

\* C20: a call of get_npc_action never ends in an exception; it returns no
\* action exactly when no alive player other than the NPC exists, and
\* otherwise an alive player other than the NPC, whatever the oracle did;
\* when the oracle's text names several of them, the one that comes first
\* in alive_players.
C20_NpcTargetValid ==
    (call.fn = "get_npc_action") =>
        /\ call.pc \in {"entered", "oracle", "returned"}
        /\ call.pc = "returned" =>
              LET candidates == SeqSet(call.alive) \ {call.npc}
              IN  /\ (call.result = None) <=> (candidates = {})
                  /\ call.result # None => call.result \in candidates
                  /\ (call.outcome.kind = "text" /\ call.outcome.matches # {}) =>
                        /\ call.result \in call.outcome.matches
                        /\ \A q \in call.outcome.matches :
                              PosIn(call.alive, call.result) <= PosIn(call.alive, q)

\* The oracle's text named several targets and the first in the list, which
\* follows the NPC in alive_players, was returned.
C20_Witness ==
    /\ call.fn = "get_npc_action"
    /\ call.pc = "returned"
    /\ Cardinality(call.outcome.matches) >= 2
    /\ call.alive # <<>>
    /\ call.alive[1] = call.npc
    /\ call.result = call.alive[2]

\* --------------------------------------------------------------------- C21
\* Task t is in start_night, end_night or start_day, at one of their awaits.
InPhaseAwait(t) ==
    tasks[t].pc \in {"night_announce", "night_wait", "night_cleanup", "morning",
                     "night_outcome", "reveal_sent", "day_announce", "vote_wait",
                     "vote_closing", "vote_cleanup", "vote_outcome"}

\* The session of task t was ended by endgame while t was suspended: the
\* guild has no game, and t has neither returned nor died.  (A new game is
\* created only while no task is left.)
TornDown(t) == ~active /\ InPhaseAwait(t)

\* C21: a phase task that resumes after endgame ended its session applies
\* no elimination, changes no phase and announces no winner.
C21_ResetCancelsPhaseTask ==
    [][\A t \in TaskIds :
          (TornDown(t) /\ Steps(t)) =>
              /\ NothingMoves
              /\ state' = state
              /\ tasks'[t].pc # "over_announce"]_vars

\* --------------------------------------------------------------------- C22
\* Task t runs: begin_game has been entered and the chain it started has
\* neither returned nor died.
Running(t) == tasks[t].pc \notin {"idle", "done", "crashed"}

\* C22: at most one phase task runs at any time.
C22_OnePhaseTask ==
    Cardinality({t \in TaskIds : Running(t)}) <= 1

\* --------------------------------------------------------------------- C23
\* The number of kill records of night_actions whose target is x.
KillRecords(x) ==
    Cardinality({i \in 1..Len(night_actions) :
        night_actions[i].action = "kill" /\ night_actions[i].target = x})

KillTargets == {x \in Ids : KillRecords(x) > 0}

\* The targets that hold the maximum number of kill records.
TopKillTargets ==
    {x \in KillTargets : \A y \in KillTargets : KillRecords(y) <= KillRecords(x)}

\* C23: when end_night decides on a night that holds kill records, the one
\* it decides to kill is one of the targets with the most kill records; when
\* it decides that nobody dies, one of those targets is the protected one.
C23_KillTargetHasMostRecords ==
    [][\A t \in TaskIds :
          (Moves(t, "night_cleanup", "morning") /\ KillTargets # {}) =>
              IF tasks'[t].killed # None
              THEN tasks'[t].killed \in TopKillTargets
              ELSE tasks'[t].protected \in TopKillTargets]_vars

\* --------------------------------------------------------------------- C24
\* C24: end_night announces a save exactly when it chose a kill target and
\* that target is the protected one; in particular a night in which no kill
\* target was chosen is not announced as a save.
C24_SavedOnlyWhenKillProtected ==
    [][\A t \in TaskIds :
          Moves(t, "morning", "night_outcome") =>
              ((tasks'[t].cause = "saved")
                  <=> (tasks[t].chosen # None /\ tasks[t].chosen = tasks[t].protected))]_vars

\* --------------------------------------------------------------------- C25
\* The positions of the investigate records of night_actions.
InvestigateRecords ==
    {i \in 1..Len(night_actions) : night_actions[i].action = "investigate"}

\* C25: whatever kill and protect records the night holds, a resolution
\* that has decided on the kill goes on to the reveal; with an investigate
\* record (there is at most one) it then sends to the detective channel,
\* and to no other, the record's target and the role player_roles gives
\* that target; without one it sends nothing.
C25_RevealIndependent ==
    [][\A t \in TaskIds :
          /\ Cardinality(InvestigateRecords) <= 1
          /\ (Steps(t) /\ tasks[t].pc = "morning" /\ InvestigateRecords # {})
                => tasks'[t].pc = "night_outcome"
          /\ (Steps(t) /\ tasks[t].pc = "night_outcome") =>
                IF InvestigateRecords = {}
                THEN tasks'[t].reveal.to = "nobody"
                ELSE \A i \in InvestigateRecords :
                        /\ tasks'[t].pc = "reveal_sent"
                        /\ tasks'[t].reveal.to = "detective_channel"
                        /\ tasks'[t].reveal.target = night_actions[i].target
                        /\ tasks'[t].reveal.role = player_roles[night_actions[i].target]]_vars

\* --------------------------------------------------------------------- C26
\* Task t has eliminated a player, in end_night or in start_day, and has
\* not yet evaluated the win condition.
Eliminated(t) ==
    \/ /\ tasks[t].pc \in {"night_outcome", "reveal_sent"}
       /\ tasks[t].killed # None
    \/ /\ tasks[t].pc = "vote_outcome"
       /\ DOMAIN current_votes # {}
       /\ dead_players # <<>>
       /\ TopVoted(current_votes) = {dead_players[Len(dead_players)]}

\* Neither side has won: every alive player has a role, a Mafia is alive,
\* and the alive Mafia are fewer than the other alive players.
NoWinner ==
    /\ AllAliveHaveRoles
    /\ AliveWithRole("MAFIA") # {}
    /\ 2 * Cardinality(AliveWithRole("MAFIA")) < Cardinality(alive_players)

\* C26: from the moment a phase task has eliminated a player (a night kill
\* or a vote elimination) until it evaluates the win condition, no step of
\* the running game changes the phase; and the phase becomes NIGHT or DAY
\* only in a step that evaluates the win condition on the players then
\* alive and finds no winner.
C26_WinCheckedBeforeAdvance ==
    [][/\ \A t \in TaskIds :
            (Eliminated(t) /\ state' # state /\ active') => Evaluates(t)
       /\ (state' # state /\ state' \in {"NIGHT", "DAY"}) =>
            (NoWinner /\ \E t \in TaskIds : Evaluates(t))]_vars

\* --------------------------------------------------------------------- C27
\* Task t has opened a night (resp. a day) and has not resolved it yet.
NightUnresolved(t) == tasks[t].pc \in {"night_announce", "night_wait", "night_cleanup"}

VoteUnresolved(t) ==
    tasks[t].pc \in {"day_announce", "vote_wait", "vote_closing", "vote_cleanup"}

\* C27: the step that opens the night (state becomes NIGHT, from when kill,
\* protect and investigate submissions are taken) leaves night_actions
\* empty, and the step that opens the day leaves current_votes empty; and
\* while a task has a night (resp. a vote) still to resolve, no change of
\* the phase keeps the records: so every record a resolution counts was
\* submitted in the phase that is being resolved.
C27_WindowOpensEmpty ==
    [][/\ (state' = "NIGHT" /\ state # "NIGHT") => night_actions' = <<>>
       /\ (state' = "DAY" /\ state # "DAY") => current_votes' = EmptyMap
       /\ \A t \in TaskIds :
            /\ (NightUnresolved(t) /\ tasks'[t] = tasks[t] /\ state' # state)
                  => night_actions' = <<>>
            /\ (VoteUnresolved(t) /\ tasks'[t] = tasks[t] /\ state' # state)
                  => current_votes' = EmptyMap]_vars

\* --------------------------------------------------------------------- C28
\* C28: a step of start_night, end_night or start_day in which a send to
\* the chat platform fails leaves the phase task running: the round is
\* resolved and the game goes on or ends.
C28_SendFailureNeverAborts ==
    [][\A t \in TaskIds :
          (InPhaseAwait(t) /\ (SendFails(t) \/ SendCaught(t))) => Running(t)']_vars

\* --------------------------------------------------------------------- C29
\* Task t is about to enter start_night or start_day, which evaluate the
\* win condition first.
BeforeEvaluation(t) ==
    tasks[t].pc \in {"begin_announce", "vote_outcome", "night_outcome", "reveal_sent"}

\* C29: a step of a phase task that is to evaluate the win condition while
\* an alive player has no role does not end the task with the game left as
\* it is: the game is brought to its end.
C29_MissingRoleEndsGame ==
    [][\A t \in TaskIds :
          (BeforeEvaluation(t) /\ Steps(t) /\ ~AllAliveHaveRoles) =>
              /\ tasks'[t].pc # "crashed"
              /\ tasks'[t].pc = "over_announce" \/ state' \in {"ENDED", "WAITING"}]_vars

\* --------------------------------------------------------------------- C30
\* The simulated players expected to act in a night: alive, and Mafia,
\* Detective or Doctor.
ExpectedSimulated ==
    {p \in alive_players :
        /\ IsSimulated(p)
        /\ HasKey(player_roles, p)
        /\ player_roles[p] \in {"MAFIA", "DETECTIVE", "DOCTOR"}}

SelfTargeting ==
    {i \in 1..Len(night_actions) :
        /\ night_actions[i].action \in {"kill", "investigate"}
        /\ night_actions[i].target = night_actions[i].actor}

\* C31: no kill or investigate record of night_actions ever has its own actor
\* as its target, whichever path (text command or menu callback) wrote it.
C31_NoSelfTarget == SelfTargeting = {}

\* --------------------------------------------------------------------- C32
\* A selection of target by user a in a menu of the kind would be accepted.
MenuAccepts(a, kind, target) ==
    \E t \in TaskIds :
        \/ /\ kind = "kill"
           /\ tasks[t].kview.live /\ target \in tasks[t].kview.opts
           /\ CallbackAccepted(a, "MAFIA")
        \/ /\ kind = "protect"
           /\ tasks[t].pview.live /\ target \in tasks[t].pview.opts
           /\ CallbackAccepted(a, "DOCTOR")
        \/ /\ kind = "investigate"
           /\ tasks[t].iview.live /\ target \in tasks[t].iview.opts
           /\ CallbackAccepted(a, "DETECTIVE")

\* The command of the kind, typed by user a in the role's channel with the
\* name of target, would be accepted.
CommandAccepts(a, kind, target) ==
    /\ active
    /\ \/ kind = "kill" /\ CommandAccepted(a, "MAFIA", target, TRUE, TRUE)
       \/ kind = "protect" /\ CommandAccepted(a, "DOCTOR", target, TRUE, FALSE)
       \/ kind = "investigate" /\ CommandAccepted(a, "DETECTIVE", target, TRUE, TRUE)

\* A menu of the kind is offered and takes selections.
MenuOffered(kind) ==
    \E t \in TaskIds :
        \/ kind = "kill" /\ tasks[t].kview.live
        \/ kind = "protect" /\ tasks[t].pview.live
        \/ kind = "investigate" /\ tasks[t].iview.live

\* C32: the two night submission paths are equivalent: while the menu of a
\* kind is offered, the text command typed in the role's channel is accepted
\* exactly when the menu accepts the same actor and target (both write the
\* same record, Rec(a, kind, target)).
C32_PathsEquivalent ==
    \A kind \in {"kill", "protect", "investigate"} :
        MenuOffered(kind) =>
            \A a \in Ids, x \in Ids :
                CommandAccepts(a, kind, x) <=> MenuAccepts(a, kind, x)

\* --------------------------------------------------------------------- C33
NoDuplicates(s) == \A i, j \in 1..Len(s) : s[i] = s[j] => i = j

\* The actor a resolution step of task t is about to remove, or None.
Removes(t) ==
    IF tasks[t].pc = "morning" THEN tasks[t].killed
    ELSE IF /\ tasks[t].pc = "vote_cleanup"
            /\ DOMAIN current_votes # {}
            /\ Cardinality(eliminated(current_votes)) = 1
         THEN CHOOSE x \in eliminated(current_votes) : TRUE
         ELSE None

\* C33: no effect is applied twice: dead_players never holds the same actor
\* twice, and no resolution (of a night or of a vote) tries to remove from
\* alive_players an actor who is in dead_players already.
C33_NoEffectTwice ==
    [][/\ NoDuplicates(dead_players')
       /\ \A t \in TaskIds :
            (EndNightApply(t) \/ VoteResolve(t)) /\ Removes(t) # None
                => Removes(t) \notin SeqSet(dead_players)]_vars

\* --------------------------------------------------------------------- C34
\* The game is over once a winner was announced (state ENDED, then WAITING
\* after the cleanup) or `endgame` removed the game.
GameEnded == ~active \/ state \in {"ENDED", "WAITING"}

\* A phase task has arrived at one of the given points.
Arrived(pcs) == \E t \in TaskIds : tasks[t].pc \in pcs

\* C34: under fair scheduling every opened collection window closes, also
\* when nobody submits, and the game goes on through the resolution to the
\* next phase or to the end of the game.
C34_WindowsClose ==
    /\ Arrived({"night_wait"})
          ~> (Arrived({"day_announce", "over_announce"}) \/ GameEnded)
    /\ Arrived({"vote_wait"})
          ~> (Arrived({"night_announce", "over_announce"}) \/ GameEnded)

C34_Witness ==
    \E t \in TaskIds :
        /\ tasks[t].pc = "vote_outcome"
        /\ nsub = FairSubmits
        /\ current_votes = EmptyMap
        /\ dead_players = <<>>

\* --------------------------------------------------------------------- C35
\* Task t runs the begin_game of the game active_games points to.
BeginAccepted(t) == active /\ tasks[t].pc \notin {"idle", "done", "crashed", "orphaned"}

\* C35: at most one game per guild is being played: once begin has been
\* accepted for the guild's game, a startgame is rejected and leaves
\* active_games unchanged, also while begin_game is suspended in its setup.
C35_StartGameRejectedAfterBegin ==
    [][\A t \in TaskIds : BeginAccepted(t) => tasks'[t].pc # "orphaned"]_vars

\* --------------------------------------------------------------------- C36
Started == active /\ state \in {"IN_PROGRESS", "NIGHT", "DAY"}

\* C36: in every state of a started game every actor of alive_players has
\* an entry in player_roles, also when join requests fall into the
\* suspension points of begin_game.
C36_AliveHaveRoles ==
    Started => \A p \in alive_players : HasKey(player_roles, p)

\* --------------------------------------------------------------------- C37
\* Caller c records a request: it passes to the API call.
Records(c) == call.pc[c] # "api" /\ call'.pc[c] = "api"

\* C37: any two consecutively recorded requests of MistralAgent are at least
\* min_request_interval apart: a step that records a request finds the
\* previous one that long ago.
C37_MinimumInterval ==
    [][\A c \in Callers :
          Records(c) => call'.last_request_time - call.last_request_time
                            >= min_request_interval]_vars

\* --------------------------------------------------------------------- C38
\* The entries of ts within the 60 seconds that start at entry i.
InWindowFrom(ts, i) == {j \in 1..Len(ts) : ts[i] <= ts[j] /\ ts[j] < ts[i] + Window}

\* The callers inside the `async with self.semaphore` block.
Inside == {c \in Callers : call.pc[c] \in {"sleep_interval", "sleep_rate", "api"}}

\* C38: request_timestamps never holds more than requests_per_minute entries
\* that lie within one window of 60 seconds, and at most three callers are
\* inside the section the semaphore guards.
C38_RateLimit ==
    /\ \A i \in 1..Len(call.request_timestamps) :
          Cardinality(InWindowFrom(call.request_timestamps, i)) <= requests_per_minute
    /\ Cardinality(Inside) <= SemaphorePermits

C38_Witness ==
    /\ Len(call.request_timestamps) = requests_per_minute
    /\ \E c \in Callers : call.pc[c] = "sleep_rate"
    /\ \E c \in Callers : call.pc[c] = "blocked"
    /\ Cardinality(Inside) = SemaphorePermits

\* --------------------------------------------------------------------- C39
\* The call of process_votes returns.
Returns == call.fn = "process_votes" /\ call.pc = "entered" /\ call'.pc = "returned"

=============================================================================
